---- MODULE Spec2Model ----
(***************************************************************************)
(* A model of the commuter-survey cleaning pipeline (prod/clean_surveys.py) *)
(* and of the map dashboard's loader (prod/map_dash.py).                    *)
(*                                                                         *)
(* Texts are TLA+ strings; the substring, equality and lower-casing tests   *)
(* of the code are computed character by character.  A cell of a table is   *)
(* a record [kind, text, num]: kind "nan" is pandas' NaN/None, "str" a      *)
(* Python str (in text), "num" a number (an integer in num; a float the     *)
(* model does not evaluate is carried as the expression in text).           *)
(***************************************************************************)
EXTENDS Integers, Sequences, FiniteSets, TLC

(***************************************************************************)
(* Text primitives: Python's `in`, str.lower()                              *)
(***************************************************************************)
UpperLetters == "ABCDEFGHIJKLMNOPQRSTUVWXYZ"
LowerLetters == "abcdefghijklmnopqrstuvwxyz"

\* needle in hay (Python substring containment)
Contains(hay, needle) ==
    \E i \in 1..(Len(hay) - Len(needle) + 1) :
        SubSeq(hay, i, i + Len(needle) - 1) = needle

LowerChar(c) ==
    IF \E i \in 1..26 : SubSeq(UpperLetters, i, i) = c
    THEN LET i == CHOOSE j \in 1..26 : SubSeq(UpperLetters, j, j) = c
         IN  SubSeq(LowerLetters, i, i)
    ELSE c

RECURSIVE Lower(_)
Lower(s) ==
    IF Len(s) = 0 THEN ""
    ELSE IF Len(s) = 1 THEN LowerChar(s)
    ELSE Lower(SubSeq(s, 1, Len(s) \div 2)) \o Lower(SubSeq(s, Len(s) \div 2 + 1, Len(s)))

(***************************************************************************)
(* Cells                                                                    *)
(***************************************************************************)
NaN == [kind |-> "nan", text |-> "", num |-> 0]
Str(s) == [kind |-> "str", text |-> s, num |-> 0]
Num(n) == [kind |-> "num", text |-> "", num |-> n]

\* isinstance(v, str)
IsStr(v) == v.kind = "str"
\* pd.isna(v) / pd.notna(v)
IsNa(v) == v.kind = "nan"
NotNa(v) == ~IsNa(v)

(***************************************************************************)
(* consolidate_mode: None is modelled as "None"; the six categories keep    *)
(* the code's labels.                                                       *)
(***************************************************************************)
NoMode == "None"
modes == <<"Walk", "Bike", "Drive Alone", "Carpool", "Bus", "Other">>
ModeSet == {modes[i] : i \in 1..Len(modes)}

\* variant: the walk rule tested before the bus rule
ConsolidateModeWalkFirst(mode) ==
    IF ~IsStr(mode) \/ IsNa(mode) THEN NoMode
    ELSE LET m == Lower(mode.text) IN
         IF m = "did not travel" THEN NoMode
         ELSE IF Contains(m, "walk") THEN "Walk"
         ELSE IF \E x \in {"udash", "mountain line", "bus"} : Contains(m, x) THEN "Bus"
         ELSE IF Contains(m, "bike") THEN "Bike"
         ELSE IF Contains(m, "drive alone") THEN "Drive Alone"
         ELSE IF \E x \in {"carpool", "vanpool"} : Contains(m, x) THEN "Carpool"
         ELSE "Other"

\* variant: no early return, so null and 'did not travel' fall through to Other
ConsolidateModeOtherForNoTravel(mode) ==
    IF ~IsStr(mode) \/ IsNa(mode) THEN "Other"
    ELSE LET m == Lower(mode.text) IN
         IF \E x \in {"udash", "mountain line", "bus"} : Contains(m, x) THEN "Bus"
         ELSE IF Contains(m, "walk") THEN "Walk"
         ELSE IF Contains(m, "bike") THEN "Bike"
         ELSE IF Contains(m, "drive alone") THEN "Drive Alone"
         ELSE IF \E x \in {"carpool", "vanpool"} : Contains(m, x) THEN "Carpool"
         ELSE "Other"

consolidate_mode(mode) ==
    IF ~IsStr(mode) \/ IsNa(mode) THEN NoMode
    ELSE LET m == Lower(mode.text) IN
         IF m = "did not travel" THEN NoMode
         ELSE IF \E x \in {"udash", "mountain line", "bus"} : Contains(m, x) THEN "Bus"
         ELSE IF Contains(m, "walk") THEN "Walk"
         ELSE IF Contains(m, "bike") THEN "Bike"
         ELSE IF Contains(m, "drive alone") THEN "Drive Alone"
         ELSE IF \E x \in {"carpool", "vanpool"} : Contains(m, x) THEN "Carpool"
         ELSE "Other"

(***************************************************************************)
(* consolidate_affiliation (None is the NaN cell)                           *)
(***************************************************************************)
\* variant: the Staff test made before the Student and Faculty tests
ConsolidateAffiliationStaffFirst(affiliation) ==
    IF ~IsStr(affiliation) \/ IsNa(affiliation) THEN NaN
    ELSE IF Contains(affiliation.text, "Staff") THEN Str("Staff")
    ELSE IF Contains(affiliation.text, "Student") THEN Str("Student")
    ELSE IF Contains(affiliation.text, "Faculty") THEN Str("Faculty")
    ELSE affiliation

\* variant: a text without keyword is labelled instead of passed through
ConsolidateAffiliationNonStudent(affiliation) ==
    IF ~IsStr(affiliation) \/ IsNa(affiliation) THEN NaN
    ELSE IF Contains(affiliation.text, "Student") THEN Str("Student")
    ELSE IF Contains(affiliation.text, "Faculty") THEN Str("Faculty")
    ELSE IF Contains(affiliation.text, "Staff") THEN Str("Staff")
    ELSE Str("Non-Student")

consolidate_affiliation(affiliation) ==
    IF ~IsStr(affiliation) \/ IsNa(affiliation) THEN NaN
    ELSE IF Contains(affiliation.text, "Student") THEN Str("Student")
    ELSE IF Contains(affiliation.text, "Faculty") THEN Str("Faculty")
    ELSE IF Contains(affiliation.text, "Staff") THEN Str("Staff")
    ELSE affiliation

(***************************************************************************)
(* Tables (DataFrames): cols is the column index, rows the records in row   *)
(* order, each a sequence of cells aligned with cols.                       *)
(***************************************************************************)
Range(s) == {s[i] : i \in 1..Len(s)}
EmptyTable == [cols |-> <<>>, rows |-> <<>>]
NRows(t) == Len(t.rows)
HasCol(t, c) == c \in Range(t.cols)
ColIdx(t, c) ==
    CHOOSE i \in 1..Len(t.cols) : t.cols[i] = c /\ \A j \in 1..(i - 1) : t.cols[j] # c
Cell(t, r, c) == t.rows[r][ColIdx(t, c)]

\* df[c] = values (one cell per row): overwrites the column when present,
\* appends it otherwise
SetColumn(t, c, values) ==
    IF HasCol(t, c)
    THEN [cols |-> t.cols,
          rows |-> [r \in 1..NRows(t) |-> [t.rows[r] EXCEPT ![ColIdx(t, c)] = values[r]]]]
    ELSE [cols |-> Append(t.cols, c),
          rows |-> [r \in 1..NRows(t) |-> Append(t.rows[r], values[r])]]

\* df[names]
SelectCols(t, names) ==
    [cols |-> names,
     rows |-> [r \in 1..NRows(t) |-> [k \in 1..Len(names) |-> Cell(t, r, names[k])]]]

\* a dict is a sequence of <<key, value>>; MapName is the lookup with the key
\* as default: what DataFrame.rename does with a column name
MapName(mapping, c) ==
    IF \E i \in 1..Len(mapping) : mapping[i][1] = c
    THEN mapping[CHOOSE i \in 1..Len(mapping) : mapping[i][1] = c][2]
    ELSE c

\* df.rename(columns=mapping)
RenameCols(t, mapping) ==
    [cols |-> [k \in 1..Len(t.cols) |-> MapName(mapping, t.cols[k])], rows |-> t.rows]

\* df.drop(columns=...)
DropCols(t, dropped) ==
    LET keep == SelectSeq([i \in 1..Len(t.cols) |-> i], LAMBDA i : t.cols[i] \notin dropped)
    IN  [cols |-> [k \in 1..Len(keep) |-> t.cols[keep[k]]],
         rows |-> [r \in 1..NRows(t) |-> [k \in 1..Len(keep) |-> t.rows[r][keep[k]]]]]

\* list(dict.fromkeys(s))
RECURSIVE Dedup(_)
Dedup(s) ==
    IF Len(s) = 0 THEN <<>>
    ELSE LET front == Dedup(SubSeq(s, 1, Len(s) - 1))
         IN  IF s[Len(s)] \in Range(front) THEN front ELSE Append(front, s[Len(s)])

(***************************************************************************)
(* CSV files: cols is the header line pandas takes the names from, rows the *)
(* data lines as texts.  pd.read_csv with its defaults turns the NA texts   *)
(* into NaN and infers a column's type from all its cells: a column whose   *)
(* non-NA cells are all numbers is numeric, any other column holds str.     *)
(* Numbers are integer literals, or a float expression written fl(...).     *)
(***************************************************************************)
NaValues == {"", "#N/A", "#N/A N/A", "#NA", "-1.#IND", "-1.#QNAN", "-NaN", "-nan",
             "1.#IND", "1.#QNAN", "<NA>", "N/A", "NA", "NULL", "NaN", "None",
             "n/a", "nan", "null"}
Digits == "0123456789"
IsDigits(s) ==
    /\ Len(s) > 0
    /\ \A i \in 1..Len(s) : \E d \in 1..10 : SubSeq(Digits, d, d) = SubSeq(s, i, i)
IsIntText(s) ==
    \/ IsDigits(s)
    \/ Len(s) > 1 /\ SubSeq(s, 1, 1) = "-" /\ IsDigits(SubSeq(s, 2, Len(s)))
IsFloatText(s) == Len(s) > 3 /\ SubSeq(s, 1, 3) = "fl("
IsNumberText(s) == IsIntText(s) \/ IsFloatText(s)

RECURSIVE ParseNat(_)
ParseNat(s) ==
    IF Len(s) = 0 THEN 0
    ELSE 10 * ParseNat(SubSeq(s, 1, Len(s) - 1))
         + ((CHOOSE d \in 1..10 : SubSeq(Digits, d, d) = SubSeq(s, Len(s), Len(s))) - 1)
ParseNumber(s) ==
    IF IsFloatText(s) THEN [kind |-> "num", text |-> s, num |-> 0]
    ELSE IF SubSeq(s, 1, 1) = "-" THEN Num(0 - ParseNat(SubSeq(s, 2, Len(s))))
    ELSE Num(ParseNat(s))

\* variant: read_csv(keep_default_na=False), empty fields stay str
ReadCsvKeepingEmptyText(file) ==
    LET numeric(k) == \A r \in 1..Len(file.rows) : IsNumberText(file.rows[r][k])
        cell(r, k) == LET x == file.rows[r][k] IN
                      IF numeric(k) THEN ParseNumber(x) ELSE Str(x)
    IN  [cols |-> file.cols,
         rows |-> [r \in 1..Len(file.rows) |-> [k \in 1..Len(file.cols) |-> cell(r, k)]]]

read_csv(file) ==
    LET numeric(k) == \A r \in 1..Len(file.rows) :
                          file.rows[r][k] \in NaValues \/ IsNumberText(file.rows[r][k])
        cell(r, k) == LET x == file.rows[r][k] IN
                      IF x \in NaValues THEN NaN
                      ELSE IF numeric(k) THEN ParseNumber(x) ELSE Str(x)
    IN  [cols |-> file.cols,
         rows |-> [r \in 1..Len(file.rows) |-> [k \in 1..Len(file.cols) |-> cell(r, k)]]]

\* DataFrame.to_csv(index=False): NaN is written as the empty text
CellText(v) ==
    IF IsNa(v) THEN ""
    ELSE IF v.kind = "str" THEN v.text
    ELSE IF v.text # "" THEN v.text
    ELSE ToString(v.num)
to_csv(t) ==
    [cols |-> t.cols,
     rows |-> [r \in 1..NRows(t) |-> [k \in 1..Len(t.cols) |-> CellText(t.rows[r][k])]]]

(***************************************************************************)
(* get_column_mappings, get_column_categories                               *)
(***************************************************************************)
column_mapping_2021 == <<
    <<"Approximately how many miles do you commute to campus every day (one way)?",
      "Approximately how many miles do you commute to campus every day (one way)? Feel free to use the image below to quickly get a sense of your distance from UM.">>,
    <<"How satisfying was your experience using the UDASH or Mountain Line bus system?",
      "How satisfying was your experience using the UDASH bus system?">>,
    <<"Have you ever used the Mountain Line or UDASH tracking apps?",
      "Have you ever used the Transit app to track UDASH or Mountain Line buses?">>,
    <<"Do you support or oppose the use of electric scooters (so-called e-scooters) in the Missoula area and on campus? (choose one)",
      "Do you support or oppose the use of electric scooters (e-scooters) in the Missoula area and on campus? (choose one)">>,
    <<"If a company establishes an e-scooter share system in Missoula that allows riders to rent e-scooters, how likely are you to use an e-scooter share system?",
      "If a company establishes an e-scooter and e-bike share system in Missoula (Lime, Spin, etc.) that allows riders to rent bikes and scooters, do you anticipate using this service?">>
>>

standardized_names == <<
    <<"What is your primary affiliation with the University of Montana?",
      "primary_affiliation">>,
    <<"Approximately how many miles do you commute to campus every day (one way)? Feel free to use the image below to quickly get a sense of your distance from UM.",
      "commute_miles">>,
    <<"How satisfying was your experience using the UDASH bus system?",
      "udash_satisfaction">>,
    <<"Have you ever used the Transit app to track UDASH or Mountain Line buses?",
      "transit_app_usage">>,
    <<"Do you support or oppose the use of electric scooters (e-scooters) in the Missoula area and on campus? (choose one)",
      "escooter_support">>,
    <<"If a company establishes an e-scooter and e-bike share system in Missoula (Lime, Spin, etc.) that allows riders to rent bikes and scooters, do you anticipate using this service?",
      "escooter_usage_intent">>,
    <<"Days Walk",
      "days_walk">>,
    <<"Days Bike",
      "days_bike">>,
    <<"Days Drive Alone",
      "days_drive_alone">>,
    <<"Days Carpool",
      "days_carpool">>,
    <<"Days Bus",
      "days_bus">>,
    <<"Days Other",
      "days_other">>,
    <<"On average, how many round trips to campus do you make per week?",
      "weekly_trips">>,
    <<"What keeps you, if anything, from riding a bicycle more often? (select all that apply) - Selected Choice",
      "bike_barriers">>,
    <<"What keeps you, if anything, from riding a bicycle more often? (select all that apply) - Other, please specify - Text",
      "bike_barriers_other">>,
    <<"You indicated that you sometimes carpool to campus. How many people, besides yourself, are usually in the vehicle when you carpool?",
      "carpool_occupants">>,
    <<"When you drive to campus, where do you most frequently park your vehicle? - Selected Choice",
      "parking_location">>,
    <<"When you drive to campus, where do you most frequently park your vehicle? - Other - Text",
      "parking_location_other">>,
    <<"What are the two intersecting streets (\"cross streets\") nearest to where you live?(e.g. 5th & Gerald)",
      "cross_streets">>,
    <<"How important are each of the following to making biking to campus more appealing to you? - Plowed routes during the winter months",
      "bike_importance_plowed_routes">>,
    <<"How important are each of the following to making biking to campus more appealing to you? - Protected bike lanes to/from campus",
      "bike_importance_protected_lanes">>,
    <<"How important are each of the following to making biking to campus more appealing to you? - Availability and location of bike parking on campus",
      "bike_importance_parking">>,
    <<"How important are each of the following to making biking to campus more appealing to you? - Access to a free or low cost bike mechanic",
      "bike_importance_mechanic">>,
    <<"How important are each of the following to making biking to campus more appealing to you? - Access to a bike (rental or low cost purchase)",
      "bike_importance_access">>,
    <<"Where is your University-owned residence? - Selected Choice",
      "university_residence">>,
    <<"Where is your University-owned residence? - Other (please specify) - Text",
      "university_residence_other">>,
    <<"With which gender do you identify? - Selected Choice",
      "gender">>,
    <<"With which gender do you identify? - Not listed - Text",
      "gender_other">>,
    <<"Which of the following best describes you? Please select one.",
      "ethnicity">>,
    <<"Describe your commute to UM in five words or less.",
      "commute_description">>,
    <<"Do you currently live in University-owned housing?",
      "lives_in_university_housing">>,
    <<"Are you a full-time or part-time affiliate?",
      "enrollment_status">>,
    <<"If your experience riding the bus was unsatisfying, please tell us why in the space below.",
      "bus_dissatisfaction_reason">>,
    <<"How would you describe your experience using the app?",
      "transit_app_experience">>,
    <<"Please indicate how you perceive of the following types of commuters. - Public transit riders",
      "perception_transit_riders">>,
    <<"Please indicate how you perceive of the following types of commuters. - Motorists",
      "perception_motorists">>,
    <<"Please indicate how you perceive of the following types of commuters. - Bicyclists",
      "perception_bicyclists">>,
    <<"What is your age?",
      "age">>,
    <<"If your permanent address is not in Missoula, how many times per year do you travel home (your permanent address) for holidays, weekends, breaks, etc.?",
      "yearly_home_trips">>,
    <<"If you commute via personal vehicle to campus, please indicate the type of vehicle.",
      "vehicle_type">>,
    <<"If you're a student, what is your primary classification? - Selected Choice",
      "student_classification">>,
    <<"If you're a student, what is your primary classification? - Other - Text",
      "student_classification_other">>,
    <<"Would any of the incentives below encourage you to carpool with fellow UM commuters on an occasional basis? (select all incentives that are appealing)",
      "carpool_incentives">>,
    <<"On which campuses do you work or attend classes?",
      "campus_location">>,
    <<"What is the zip code of your permanent address?",
      "permanent_zipcode">>,
    <<"What keeps you, if anything, from using public transit more often? (select all that apply) - Selected Choice",
      "transit_barriers">>,
    <<"What keeps you, if anything, from using public transit more often? (select all that apply) - Other - please specify: - Text",
      "transit_barriers_other">>,
    <<"What type of parking permit do you have, if any?(Check all that apply.)",
      "parking_permit">>,
    <<"What is your typical mode of transport when traveling to your permanent address for holidays, breaks, etc.? - Selected Choice",
      "home_travel_mode">>,
    <<"What is your typical mode of transport when traveling to your permanent address for holidays, breaks, etc.? - Other - Text",
      "home_travel_mode_other">>,
    <<"survey_year",
      "survey_year">>
>>

fact_columns == <<
    "ResponseId", "survey_year", "primary_affiliation",
    "commute_miles", "calculated_distance_mi", "days_walk",
    "days_bike", "days_drive_alone", "days_carpool",
    "days_bus", "days_other", "weekly_trips",
    "carpool_occupants", "parking_location", "cross_streets",
    "university_residence", "gender", "ethnicity",
    "lives_in_university_housing", "enrollment_status", "age",
    "yearly_home_trips", "vehicle_type", "student_classification",
    "campus_location", "permanent_zipcode", "parking_permit",
    "home_travel_mode", "latitude", "longitude"
>>

opinion_columns == <<
    "ResponseId", "survey_year", "udash_satisfaction",
    "transit_app_usage", "escooter_support", "escooter_usage_intent",
    "bike_barriers", "bike_barriers_other", "bike_importance_plowed_routes",
    "bike_importance_protected_lanes", "bike_importance_parking", "bike_importance_mechanic",
    "bike_importance_access", "commute_description", "bus_dissatisfaction_reason",
    "transit_app_experience", "perception_transit_riders", "perception_motorists",
    "perception_bicyclists", "carpool_incentives", "transit_barriers",
    "transit_barriers_other"
>>

(***************************************************************************)
(* load_survey_data                                                         *)
(***************************************************************************)
ResponseIdCol == "ResponseId"
YearCol == "survey_year"

LoadTagged(file, year) ==
    SetColumn(read_csv(file), YearCol, [r \in 1..Len(file.rows) |-> Num(year)])

\* variant: the column check left out
LoadSurveyDataNoCheck(file, year) == FALSE

\* the ValueError of line 43
load_survey_data_raises(file, year) == ~HasCol(LoadTagged(file, year), "Response ID")

load_survey_data(file, year) ==
    RenameCols(LoadTagged(file, year), << <<"Response ID", ResponseIdCol>> >>)

(***************************************************************************)
(* clean_survey_data, lines 296-305: the 2021 rename and the column slice   *)
(***************************************************************************)
start_col == "What is your primary affiliation with the University of Montana?"
affiliation_col == "What is your primary affiliation with the University of Montana?"

Apply2021Mapping(df, year) ==
    IF year = 2021 THEN RenameCols(df, column_mapping_2021) ELSE df

\* df.columns.get_loc(start_col), or df[cols] for an absent name, raises KeyError
slice_raises(df, year) ==
    \/ ~HasCol(Apply2021Mapping(df, year), start_col)
    \/ ~HasCol(Apply2021Mapping(df, year), ResponseIdCol)

slice_columns(df, year) ==
    LET d == Apply2021Mapping(df, year)
        start_idx == ColIdx(d, start_col)
        cols == <<ResponseIdCol>> \o SubSeq(d.cols, start_idx, Len(d.cols)) \o <<YearCol>>
    IN  SelectCols(d, Dedup(cols))

(***************************************************************************)
(* process_student_modes, process_travel_modes                              *)
(***************************************************************************)
travel_patterns == <<
    "For each day last week, what was your primary mode of travel between your residence and campus?",
    "For each day last week, what was your primary mode of travel between your residence and other parts of campus?">>
day_names == {" Sun", " Mon", " Tues", " Wed", " Thurs", " Fri", " Sat"}

\* the appends one column makes to day_cols (one per pattern it contains)
DayColHits(col) ==
    LET hit(p) == Contains(col, p) /\ \E day \in day_names : Contains(col, day)
    IN  (IF hit(travel_patterns[1]) THEN <<col>> ELSE <<>>)
        \o (IF hit(travel_patterns[2]) THEN <<col>> ELSE <<>>)

RECURSIVE FindDayCols(_)
FindDayCols(cols) ==
    IF Len(cols) = 0 THEN <<>>
    ELSE FindDayCols(SubSeq(cols, 1, Len(cols) - 1)) \o DayColHits(cols[Len(cols)])

\* the list process_student_modes returns for row r
process_student_modes(df, r, day_cols) ==
    SelectSeq([k \in 1..Len(day_cols) |-> consolidate_mode(Cell(df, r, day_cols[k]))],
              LAMBDA m : m # NoMode)

\* list.count
Count(s, x) == Cardinality({k \in 1..Len(s) : s[k] = x})

DaysCol(mode) == "Days " \o mode

RECURSIVE AddDayCounts(_, _, _, _)
AddDayCounts(df, src, day_cols, k) ==
    IF k > Len(modes) THEN df
    ELSE AddDayCounts(
             SetColumn(df, DaysCol(modes[k]),
                       [r \in 1..NRows(src) |->
                           Num(Count(process_student_modes(src, r, day_cols), modes[k]))]),
             src, day_cols, k + 1)

process_travel_modes(df) ==
    LET day_cols == FindDayCols(df.cols)
    IN  IF Len(day_cols) = 0 THEN df
        ELSE DropCols(AddDayCounts(df, df, day_cols, 1), Range(day_cols))

(***************************************************************************)
(* load_intersection_data, calculate_haversine_distance, add_location_data  *)
(* A lookup file is [exists, rows]; a row is [ResponseId, matched_lat,      *)
(* matched_lon] as read_csv delivers them.  Coordinates are whole numbers.  *)
(***************************************************************************)
\* the keys of the lookup dict: ids of the rows with both coordinates
LookupKeys(rows) ==
    {rows[i].ResponseId : i \in {j \in 1..Len(rows) :
                                  NotNa(rows[j].matched_lat) /\ NotNa(rows[j].matched_lon)}}
\* lookup[id]: a dict comprehension keeps the last row of a key
LookupAt(rows, id) ==
    LET valid == {j \in 1..Len(rows) : /\ rows[j].ResponseId = id
                                       /\ NotNa(rows[j].matched_lat)
                                       /\ NotNa(rows[j].matched_lon)}
        last == CHOOSE j \in valid : \A k \in valid : k <= j
    IN  <<rows[last].matched_lat, rows[last].matched_lon>>

\* R * c * CIRCUITY_FACTOR from the campus to (lat, lon): a float, not evaluated
calculate_haversine_distance(lat, lon) ==
    [kind |-> "num",
     text |-> "fl(1.35*3959*c(campus," \o ToString(lat.num) \o "," \o ToString(lon.num) \o "))",
     num  |-> 0]

\* variant: pd.read_csv called on the missing file
AddLocationMissingFileRaises(file) == ~file.exists

\* load_intersection_data returns None for a missing file: nothing is raised
add_location_raises(file) == FALSE

InitLocationCols(df) ==
    LET none == [r \in 1..NRows(df) |-> NaN]
    IN  SetColumn(SetColumn(SetColumn(df, "latitude", none), "longitude", none),
                  "calculated_distance_mi", none)

\* variant: the distance assignment left out
AddLocationNoDistance(df, file) ==
    LET d0 == InitLocationCols(df)
        hit(r) == file.exists /\ Cell(d0, r, ResponseIdCol) \in LookupKeys(file.rows)
        at(r) == LookupAt(file.rows, Cell(d0, r, ResponseIdCol))
    IN  SetColumn(SetColumn(d0, "latitude",
                            [r \in 1..NRows(df) |-> IF hit(r) THEN at(r)[1] ELSE NaN]),
                  "longitude", [r \in 1..NRows(df) |-> IF hit(r) THEN at(r)[2] ELSE NaN])

add_location_data(df, file) ==
    LET d0 == InitLocationCols(df)
        hit(r) == file.exists /\ Cell(d0, r, ResponseIdCol) \in LookupKeys(file.rows)
        at(r) == LookupAt(file.rows, Cell(d0, r, ResponseIdCol))
        d1 == SetColumn(d0, "latitude",
                        [r \in 1..NRows(df) |-> IF hit(r) THEN at(r)[1] ELSE NaN])
        d2 == SetColumn(d1, "longitude",
                        [r \in 1..NRows(df) |-> IF hit(r) THEN at(r)[2] ELSE NaN])
    IN  SetColumn(d2, "calculated_distance_mi",
                  [r \in 1..NRows(df) |->
                      IF hit(r) /\ NotNa(at(r)[1]) /\ NotNa(at(r)[2])
                      THEN calculate_haversine_distance(at(r)[1], at(r)[2])
                      ELSE NaN])

(***************************************************************************)
(* clean_survey_data, lines 313-316                                         *)
(***************************************************************************)
consolidate_affiliations(df) ==
    IF HasCol(df, affiliation_col)
    THEN SetColumn(df, affiliation_col,
                   [r \in 1..NRows(df) |->
                       consolidate_affiliation(Cell(df, r, affiliation_col))])
    ELSE df

(***************************************************************************)
(* get_common_columns.  list(set(...)) has no specified order: the result   *)
(* is modelled as the set of its names.                                     *)
(***************************************************************************)
get_common_columns_raises(df_2024, df_2021, start) ==
    ~\E k \in 1..Len(df_2024.cols) : Lower(df_2024.cols[k]) = Lower(start)

\* variant: the union of the two column sets
GetCommonColumnsUnion(df_2024, df_2021, start) ==
    Range(df_2024.cols) \cup Range(df_2021.cols) \cup {ResponseIdCol, YearCol}

\* variant: the common names filtered by the keys of standardized_names
GetCommonColumnsMappedOnly(df_2024, df_2021, start) ==
    {c \in Range(df_2024.cols) \cap Range(df_2021.cols) :
        \E i \in 1..Len(standardized_names) : standardized_names[i][1] = c}
    \cup {ResponseIdCol, YearCol}

get_common_columns(df_2024, df_2021, start) ==
    LET actual_col == df_2024.cols[CHOOSE k \in 1..Len(df_2024.cols) :
                          /\ Lower(df_2024.cols[k]) = Lower(start)
                          /\ \A j \in 1..(k - 1) : Lower(df_2024.cols[j]) # Lower(start)]
        start_idx == ColIdx(df_2024, actual_col)
        cols_2024 == Range(SubSeq(df_2024.cols, start_idx, Len(df_2024.cols)))
                        \cup {ResponseIdCol}
    IN  (cols_2024 \cap Range(df_2021.cols)) \cup {ResponseIdCol, YearCol}

(***************************************************************************)
(* main, lines 405-426: the combined table.  Its column order is that of    *)
(* common_cols (unspecified), so it is [cols: a set, rows: name -> cell].   *)
(***************************************************************************)
\* df[common_cols] raises KeyError for a name that is no column
restrict_raises(df, names) == \E c \in names : ~HasCol(df, c)

Restrict(df, names) == [r \in 1..NRows(df) |-> [c \in names |-> Cell(df, r, c)]]

\* variant: drop_duplicates on the id after the concat
ConcatDedupById(df_2024, df_2021, names) ==
    LET a == Restrict(df_2024, names)
        b == Restrict(df_2021, names)
    IN  [cols |-> names,
         rows |-> a \o SelectSeq(b, LAMBDA row :
                        ~\E i \in 1..Len(a) : a[i][ResponseIdCol] = row[ResponseIdCol])]

\* pd.concat([df_2024[common_cols], df_2021[common_cols]], ignore_index=True)
concat(df_2024, df_2021, names) ==
    [cols |-> names, rows |-> Restrict(df_2024, names) \o Restrict(df_2021, names)]

\* df_combined.rename(columns=standardized_names)
rename_standardized(t) ==
    LET newcols == {MapName(standardized_names, c) : c \in t.cols}
        old(c2) == CHOOSE c \in t.cols : MapName(standardized_names, c) = c2
    IN  [cols |-> newcols,
         rows |-> [r \in 1..Len(t.rows) |-> [c2 \in newcols |-> t.rows[r][old(c2)]]]]

\* [col for col in columns if col in df_combined.columns]
PresentColumns(columns, t) == SelectSeq(columns, LAMBDA c : c \in t.cols)

\* df_combined[columns]
Project(t, names) ==
    [cols |-> names,
     rows |-> [r \in 1..Len(t.rows) |-> [k \in 1..Len(names) |-> t.rows[r][names[k]]]]]

(***************************************************************************)
(* map_dash.load_and_prepare_data, on the facts file the pipeline wrote     *)
(***************************************************************************)
mode_columns == <<"days_walk", "days_bike", "days_drive_alone",
                  "days_carpool", "days_bus", "days_other">>

\* pd.to_numeric(errors='coerce').fillna(0)
ToNumericOrZero(v) ==
    IF v.kind = "num" THEN v
    ELSE IF v.kind = "str" /\ IsNumberText(v.text) THEN ParseNumber(v.text)
    ELSE Num(0)

\* str.replace(old, '')
RECURSIVE RemoveAll(_, _)
RemoveAll(s, old) ==
    IF Len(s) < Len(old) THEN s
    ELSE IF SubSeq(s, 1, Len(old)) = old THEN RemoveAll(SubSeq(s, Len(old) + 1, Len(s)), old)
    ELSE SubSeq(s, 1, 1) \o RemoveAll(SubSeq(s, 2, Len(s)), old)

\* the KeyError of dropna(subset=...) or of df[col] for an absent column
map_load_raises(file) ==
    \E c \in {"latitude", "longitude"} \cup Range(mode_columns) : c \notin Range(file.cols)

\* df.dropna(subset=['latitude', 'longitude'])
DropNaCoords(t) ==
    [cols |-> t.cols,
     rows |-> SelectSeq(t.rows, LAMBDA row : /\ NotNa(row[ColIdx(t, "latitude")])
                                             /\ NotNa(row[ColIdx(t, "longitude")]))]

\* the rows the dashboard keeps
map_rows(file) == DropNaCoords(read_csv(file))

RECURSIVE CoerceModeColumns(_, _)
CoerceModeColumns(t, k) ==
    IF k > Len(mode_columns) THEN t
    ELSE CoerceModeColumns(
             SetColumn(t, mode_columns[k],
                       [r \in 1..NRows(t) |-> ToNumericOrZero(Cell(t, r, mode_columns[k]))]),
             k + 1)

\* idxmax(axis=1): the first column holding the row's maximum
IdxMax(t, r) ==
    mode_columns[CHOOSE k \in 1..Len(mode_columns) :
        /\ \A j \in 1..Len(mode_columns) :
               Cell(t, r, mode_columns[j]).num <= Cell(t, r, mode_columns[k]).num
        /\ \A j \in 1..(k - 1) :
               Cell(t, r, mode_columns[j]).num < Cell(t, r, mode_columns[k]).num]

load_and_prepare_data(file) ==
    LET d == CoerceModeColumns(map_rows(file), 1)
    IN  SetColumn(d, "primary_mode",
                  [r \in 1..NRows(d) |-> Str(RemoveAll(IdxMax(d, r), "days_"))])

(***************************************************************************)
(* analysis_dash.py: load_and_calculate_data and the summary statistics of  *)
(* main, on the facts file the pipeline wrote.  Commute distances that are  *)
(* numbers are whole numbers here; a float the model does not evaluate is   *)
(* carried as its expression, as for the calculated distance.               *)
(***************************************************************************)
ACADEMIC_WEEKS == 28
\* EMISSIONS_FACTORS[mode[5:]], in the order of mode_columns
EMISSIONS_FACTORS == <<"0", "0", "0.32590725", "0.16295363", "0.06524557", "0">>
\* mode[5:]
mode_name(k) == SubSeq(mode_columns[k], 6, Len(mode_columns[k]))
miles_col(k) == "miles_" \o mode_name(k)
emissions_col(k) == "emissions_" \o mode_name(k)

Float(expr) == [kind |-> "num", text |-> "fl(" \o expr \o ")", num |-> 0]
\* a + b of two numbers
Plus(a, b) ==
    IF a = Num(0) THEN b
    ELSE IF b = Num(0) THEN a
    ELSE IF a.text = "" /\ b.text = "" THEN Num(a.num + b.num)
    ELSE Float(CellText(a) \o "+" \o CellText(b))
\* a * k for a whole number k
Times(a, k) ==
    IF a.text = "" THEN Num(a.num * k) ELSE Float(CellText(a) \o "*" \o ToString(k))

\* the exception load_and_calculate_data ends with, "" when it returns:
\* df[col] of an absent column is a KeyError; a commute_miles column that
\* read_csv left as text is multiplied as str (int * str repeats the text),
\* and the product with the float factor of drive_alone is a TypeError
load_and_calculate_error(file) ==
    IF \E c \in Range(mode_columns) \cup {"commute_miles"} : c \notin Range(file.cols)
    THEN "KeyError"
    ELSE IF \E r \in 1..Len(file.rows) : IsStr(Cell(read_csv(file), r, "commute_miles"))
    THEN "TypeError"
    ELSE ""

\* df[mode] * df['commute_miles'] * 2
Miles(days, commute) ==
    IF IsNa(commute) THEN NaN ELSE Times(Times(days, commute.num), 2)
\* df[miles_col] * EMISSIONS_FACTORS.get(mode_name, 0)
Emissions(miles, factor) ==
    IF IsNa(miles) THEN NaN
    ELSE IF factor = "0" \/ miles = Num(0) THEN Num(0)
    ELSE Float(CellText(miles) \o "*" \o factor)

RECURSIVE AddMilesAndEmissions(_, _)
AddMilesAndEmissions(t, k) ==
    IF k > Len(mode_columns) THEN t
    ELSE LET t1 == SetColumn(t, miles_col(k),
                       [r \in 1..NRows(t) |->
                           Miles(Cell(t, r, mode_columns[k]), Cell(t, r, "commute_miles"))])
             t2 == SetColumn(t1, emissions_col(k),
                       [r \in 1..NRows(t) |->
                           Emissions(Cell(t1, r, miles_col(k)), EMISSIONS_FACTORS[k])])
         IN  AddMilesAndEmissions(t2, k + 1)

load_and_calculate_data(file) ==
    AddMilesAndEmissions(CoerceModeColumns(read_csv(file), 1), 1)

\* the values of df['survey_year'].unique()
YearsIn(t) == {y \in {2021, 2024} : \E r \in 1..NRows(t) : Cell(t, r, YearCol) = Num(y)}
\* [x for x in df['primary_affiliation'].unique() if pd.notna(x)]
AffiliationsIn(t) ==
    {Cell(t, r, "primary_affiliation") : r \in 1..NRows(t)} \ {NaN}

\* the rows of filtered_df[filtered_df['survey_year'] == year]
YearRows(t, year, selected_years, selected_affiliations) ==
    SelectSeq([r \in 1..NRows(t) |-> r],
              LAMBDA r : /\ Cell(t, r, YearCol) = Num(year)
                         /\ year \in selected_years
                         /\ Cell(t, r, "primary_affiliation") \in selected_affiliations)

\* Series.sum(): NaN is skipped, the sum of nothing is 0
RECURSIVE SumCells(_)
SumCells(cells) ==
    IF Len(cells) = 0 THEN Num(0)
    ELSE LET rest == SumCells(SubSeq(cells, 1, Len(cells) - 1))
             last == cells[Len(cells)]
         IN  IF IsNa(last) THEN rest ELSE Plus(rest, last)

\* year_df[[six columns]].sum().sum()
total_weekly(t, rows, metric) ==
    SumCells([k \in 1..Len(mode_columns) |->
                 SumCells([i \in 1..Len(rows) |->
                    Cell(t, rows[i], IF metric = "Miles" THEN miles_col(k)
                                     ELSE emissions_col(k))])])

\* total / len(year_df), total a numpy number: division by 0 gives nan (with
\* a RuntimeWarning), it does not raise
NumpyDivide(total, n) ==
    IF n = 0 THEN NaN ELSE Float(CellText(total) \o "/" \o ToString(n))

\* variant: total a Python number, division by 0 raises ZeroDivisionError
SummaryErrorPythonDivision(t, selected_years, selected_affiliations) ==
    IF \E y \in selected_years :
          Len(YearRows(t, y, selected_years, selected_affiliations)) = 0
    THEN "ZeroDivisionError"
    ELSE ""

\* the exception the summary loop of main ends with: none
summary_error(t, selected_years, selected_affiliations) == ""

\* what the sidebar shows for one selected year
summary(t, year, selected_years, metric, time_period, selected_affiliations) ==
    LET rows == YearRows(t, year, selected_years, selected_affiliations)
        multiplier == IF time_period = "academic_year" THEN ACADEMIC_WEEKS ELSE 1
        total == Times(total_weekly(t, rows, metric), multiplier)
    IN  [year |-> year, commuters |-> Len(rows), total |-> total,
         average |-> NumpyDivide(total, Len(rows))]

(***************************************************************************)
(* longitudinal_miles_diff.py: analyze_long_distance_trends                 *)
(***************************************************************************)
\* a + b of two cells of numeric columns (NaN when either is NaN)
AddCells(a, b) == IF IsNa(a) \/ IsNa(b) THEN NaN ELSE Plus(a, b)

\* the rows of df_drivers[df_drivers['survey_year'] == year]
DriverRows(t, year) ==
    SelectSeq([r \in 1..NRows(t) |-> r],
              LAMBDA r : /\ Cell(t, r, YearCol) = Num(year)
                         /\ LET total_drive_days ==
                                    AddCells(Cell(t, r, "days_drive_alone"),
                                             Cell(t, r, "days_carpool"))
                            IN  NotNa(total_drive_days) /\ total_drive_days.num > 0)

\* sorted(df['survey_year'].unique())
SortedYears(t) == SelectSeq(<<2021, 2024>>, LAMBDA y : y \in YearsIn(t))

\* the exception one turn of the loop ends with, "" when it appends a result:
\* a text compared with 15 is a TypeError, long_distance / 0 of two Python
\* ints a ZeroDivisionError
year_error(t, year) ==
    IF ~HasCol(t, "commute_miles") THEN "KeyError"
    ELSE IF \E i \in 1..Len(DriverRows(t, year)) :
               IsStr(Cell(t, DriverRows(t, year)[i], "commute_miles"))
    THEN "TypeError"
    ELSE IF Len(DriverRows(t, year)) = 0 THEN "ZeroDivisionError"
    ELSE ""

\* the exception the script ends with, "" when it draws the chart: the first
\* failing turn of the loop, or max() of no result at all
trend_error_of(file) ==
    LET t == read_csv(file)
        years == SortedYears(t)
        failing == {k \in 1..Len(years) : year_error(t, years[k]) # ""}
    IN  IF \E c \in {"days_drive_alone", "days_carpool", YearCol} : ~HasCol(t, c)
        THEN "KeyError"
        ELSE IF failing # {}
        THEN year_error(t, years[CHOOSE k \in failing : \A j \in failing : k <= j])
        ELSE IF Len(years) = 0 THEN "ValueError"
        ELSE ""

\* results: per year the drivers and those with commute_miles > 15
trend_results(file) ==
    LET t == read_csv(file)
        years == SortedYears(t)
    IN  [k \in 1..Len(years) |->
            LET rows == DriverRows(t, years[k])
            IN  [year |-> years[k], total_drivers |-> Len(rows),
                 long_distance |->
                    Cardinality({i \in 1..Len(rows) :
                        LET v == Cell(t, rows[i], "commute_miles")
                        IN  NotNa(v) /\ v.num > 15})]]

(***************************************************************************)
(* Inputs: the two raw exports and the two lookup files                     *)
(***************************************************************************)
MaxRows == 2
MaxParts == 2

Years == {2024, 2021}
IdText(i) == "R_" \o ToString(i)

commute_2024 == "Approximately how many miles do you commute to campus every day (one way)? Feel free to use the image below to quickly get a sense of your distance from UM."
commute_2021 == "Approximately how many miles do you commute to campus every day (one way)?"
satisfaction_2024 == "How satisfying was your experience using the UDASH bus system?"
satisfaction_2021 == "How satisfying was your experience using the UDASH or Mountain Line bus system?"
comments_col == "Is there anything else you would like to share?"
DayCol(p, day) == travel_patterns[p] \o " -" \o day

CommuteOf(y) == IF y = 2024 THEN commute_2024 ELSE commute_2021
SatisfactionOf(y) == IF y = 2024 THEN satisfaction_2024 ELSE satisfaction_2021

\* the header lines of the exports the model runs on
FullSchema(y) ==
    <<"Start Date", "Response ID", start_col, CommuteOf(y),
      DayCol(1, " Mon"), DayCol(2, " Tues"), SatisfactionOf(y), comments_col>>
NoIdSchema(y) == <<"Start Date", start_col, CommuteOf(y), DayCol(1, " Mon")>>
NoStartSchema(y) == <<"Response ID", CommuteOf(y), DayCol(1, " Mon"), comments_col>>
SparseSchema(y) == <<"Response ID", "Start Date", start_col, comments_col>>
Schemas(y) == {FullSchema(y), NoIdSchema(y), NoStartSchema(y), SparseSchema(y)}

\* the answer of respondent id with answer profile p in column c
Answer(c, id, p) ==
    IF c = "Response ID" THEN id
    ELSE IF c = "Start Date" THEN "2024-10-01"
    ELSE IF c = start_col THEN (IF p = 1 THEN "Graduate Student" ELSE "Contractor")
    ELSE IF c \in {commute_2024, commute_2021} THEN (IF p = 1 THEN "3" ELSE "20")
    ELSE IF c = DayCol(1, " Mon") THEN (IF p = 1 THEN "Bike" ELSE "Did not travel")
    ELSE IF c = DayCol(2, " Tues") THEN (IF p = 1 THEN "Walk to the bus" ELSE "")
    ELSE IF c \in {satisfaction_2024, satisfaction_2021}
         THEN (IF p = 1 THEN "Satisfied" ELSE "")
    ELSE (IF p = 1 THEN "n/a" ELSE "more buses")

\* n respondents R_1..R_n whose answer profiles alternate from p0
Export(schema, n, p0) ==
    [cols |-> schema,
     rows |-> [i \in 1..n |-> [k \in 1..Len(schema) |->
                  Answer(schema[k], IdText(i), 1 + ((i + p0) % 2))]]]

Exports(y) ==
    {Export(s, n, p0) : s \in Schemas(y), n \in 0..MaxRows, p0 \in 1..2}

LRow(id, lat, lon) == [ResponseId |-> Str(id), matched_lat |-> lat, matched_lon |-> lon]
NoLookupFile == [exists |-> FALSE, rows |-> <<>>]
LookupFiles ==
    {NoLookupFile,
     [exists |-> TRUE, rows |-> <<LRow("R_1", Num(47), Num(-114)), LRow("R_2", NaN, Num(-114))>>],
     [exists |-> TRUE, rows |-> <<LRow("R_2", Num(46), Num(-113)), LRow("R_2", Num(47), Num(-113)),
                                  LRow("R_9", Num(46), Num(-114))>>]}

\* free-text day answers: up to MaxParts fragments written one after another
Fragments == {"", "bus", "Walk", "bike", "drive alone", "carpool", "vanpool", "UDASH",
              "mountain line", "Did not travel", " to ", "3"}
RECURSIVE TextsOf(_)
TextsOf(n) == IF n = 0 THEN {""} ELSE {a \o b : a \in TextsOf(n - 1), b \in Fragments}
DayTexts == TextsOf(MaxParts)

OneDaySchema == <<"Response ID", start_col, DayCol(1, " Mon")>>
WeekSchema ==
    <<"Response ID", start_col,
      DayCol(1, " Sun"), DayCol(1, " Mon"), DayCol(1, " Tues"), DayCol(1, " Wed"),
      DayCol(2, " Thurs"), DayCol(2, " Fri"), DayCol(2, " Sat")>>
ScenarioWeek == <<"Bike", "Bike", "Walk", "Did not travel", "", "Bus", "Bike">>
Weeks == {ScenarioWeek,
          <<"", "", "", "", "", "", "">>,
          <<"Did not travel", "NA", "did not travel", "", "", "", "DID NOT TRAVEL">>,
          <<"Carpool", "Drive alone", "2", "Vanpool", "UDASH", "Skateboard", " ">>}

OneDayExports ==
    {[cols |-> OneDaySchema, rows |-> << <<"R_1", "Student", t>> >>] : t \in DayTexts}
WeekExports ==
    {[cols |-> WeekSchema,
      rows |-> [i \in 1..Len(ws) |-> <<IdText(i), "Staff">> \o ws[i]]] :
        ws \in UNION {[1..n -> Weeks] : n \in 1..MaxRows}}
ModeExports == OneDayExports \cup WeekExports \cup {Export(SparseSchema(2021), 1, 1)}

\* free-text affiliation answers: up to MaxParts fragments
AffiliationFragments == {"", "Student", "Faculty", "Staff", "student", "Contractor",
                         "Undergraduate ", "Adjunct ", "3", " / "}
RECURSIVE AffiliationTextsOf(_)
AffiliationTextsOf(n) ==
    IF n = 0 THEN {""} ELSE {a \o b : a \in AffiliationTextsOf(n - 1), b \in AffiliationFragments}
AffiliationTexts == AffiliationTextsOf(MaxParts)
AffiliationAnswers == {"Undergraduate Student", "Adjunct Faculty", "Contractor", "3", ""}

AffiliationSchema == <<"Response ID", start_col, commute_2021>>
AffiliationExports ==
    {[cols |-> AffiliationSchema, rows |-> << <<"R_1", t, "3">> >>] : t \in AffiliationTexts}
    \cup {[cols |-> AffiliationSchema,
           rows |-> [i \in 1..Len(as) |-> <<IdText(i), as[i], "3">>]] :
              as \in UNION {[1..n -> AffiliationAnswers] : n \in 0..MaxRows}}

\* exports for the readers of the facts file: a respondent is an affiliation,
\* a commute answer and the mode of one day
Respondents == {<<"Graduate Student", "20", "Drive alone">>,
                <<"Staff", "3", "Bike">>,
                <<"Adjunct Faculty", "about 5", "Carpool">>,
                <<"Contractor", "", "Drive alone">>}
ToolSchema(y) == <<"Response ID", start_col, CommuteOf(y), DayCol(1, " Mon")>>
ToolExport(y, rs) ==
    [cols |-> ToolSchema(y), rows |-> [i \in 1..Len(rs) |-> <<IdText(i)>> \o rs[i]]]
ToolExports2024 ==
    {ToolExport(2024, rs) : rs \in {<<>>, << <<"Graduate Student", "20", "Drive alone">> >>,
                                     << <<"Staff", "3", "Bike">> >>}}
ToolExports2021 ==
    {ToolExport(2021, rs) : rs \in UNION {[1..n -> Respondents] : n \in 0..MaxRows}}

\* exports that differ in their columns: the place of the id column, the
\* letter case of the marker column, questions of one year only
marker_lower == "what is your primary affiliation with the university of montana?"
fair_col(y) == "Did you visit the " \o ToString(y) \o " transportation fair?"
OptionalColumns(y) ==
    {SelectSeq(<<CommuteOf(y), comments_col, fair_col(y)>>, LAMBDA c : c \in chosen) :
        chosen \in SUBSET {CommuteOf(y), comments_col, fair_col(y)}}
ColumnSchemas(y) ==
    {<<"Response ID", "Start Date", start_col>> \o opt : opt \in OptionalColumns(y)}
    \cup {<<"Start Date", start_col, "Response ID">> \o opt : opt \in OptionalColumns(y)}
    \cup {<<"Response ID", comments_col, start_col>> \o opt :
             opt \in {o \in OptionalColumns(y) : comments_col \notin Range(o)}}
    \cup {<<"Response ID", "Start Date", marker_lower>> \o opt : opt \in OptionalColumns(y)}
ColumnExports(y) == {Export(schema, 1, 1) : schema \in ColumnSchemas(y)}

(***************************************************************************)
(* The run of main(), stage by stage, then the map dashboard's load         *)
(***************************************************************************)
VARIABLES raw, lookup_file, pc, yr, df, prev, common_cols, df_combined,
          df_facts, df_opinions, written, facts_file, error, map_state, map_df,
          analysis_state, analysis_error, analysis_out,
          trend_state, trend_error, trend_out
\* the state of the two other readers of the facts file
tools == <<analysis_state, analysis_error, analysis_out,
           trend_state, trend_error, trend_out>>
vars == <<raw, lookup_file, pc, yr, df, prev, common_cols, df_combined,
          df_facts, df_opinions, written, facts_file, error, map_state, map_df, tools>>

EmptyCombined == [cols |-> {}, rows |-> <<>>]

InitRun ==
    /\ pc = "load"
    /\ yr = 2024
    /\ df = [y \in Years |-> EmptyTable]
    /\ prev = EmptyTable
    /\ common_cols = {}
    /\ df_combined = EmptyCombined
    /\ df_facts = EmptyTable
    /\ df_opinions = EmptyTable
    /\ written = {}
    /\ facts_file = EmptyTable
    /\ error = ""
    /\ map_state = "idle"
    /\ map_df = EmptyTable
    /\ analysis_state = "idle"
    /\ analysis_error = ""
    /\ analysis_out = <<>>
    /\ trend_state = "idle"
    /\ trend_error = ""
    /\ trend_out = <<>>

Init ==
    /\ raw \in {[y \in Years |-> IF y = 2024 THEN a ELSE b] :
                   a \in Exports(2024), b \in Exports(2021)}
    /\ lookup_file \in [Years -> LookupFiles]
    /\ InitRun

InitModes ==
    /\ raw \in {[y \in Years |-> IF y = 2024 THEN Export(FullSchema(2024), 1, 1) ELSE b] :
                   b \in ModeExports}
    /\ lookup_file = [y \in Years |-> NoLookupFile]
    /\ InitRun

InitAffiliations ==
    /\ raw \in {[y \in Years |-> IF y = 2024 THEN Export(FullSchema(2024), 2, 1) ELSE b] :
                   b \in AffiliationExports}
    /\ lookup_file = [y \in Years |-> NoLookupFile]
    /\ InitRun

InitTools ==
    /\ raw \in {[y \in Years |-> IF y = 2024 THEN a ELSE b] :
                   a \in ToolExports2024, b \in ToolExports2021}
    /\ lookup_file = [y \in Years |-> NoLookupFile]
    /\ InitRun

InitColumns ==
    /\ raw \in {[y \in Years |-> IF y = 2024 THEN a ELSE b] :
                   a \in ColumnExports(2024), b \in ColumnExports(2021)}
    /\ lookup_file = [y \in Years |-> NoLookupFile]
    /\ InitRun

Abort(e) ==
    /\ pc' = "aborted"
    /\ error' = e
    /\ UNCHANGED <<raw, lookup_file, yr, df, prev, common_cols, df_combined,
                   df_facts, df_opinions, written, facts_file, map_state, map_df, tools>>

\* a stage of clean_survey_data turns df[yr] into t
Stage(t, next) ==
    /\ prev' = df[yr]
    /\ df' = [df EXCEPT ![yr] = t]
    /\ pc' = next
    /\ UNCHANGED <<raw, lookup_file, yr, common_cols, df_combined, df_facts,
                   df_opinions, written, facts_file, error, map_state, map_df, tools>>

Load ==
    /\ pc = "load"
    /\ IF load_survey_data_raises(raw[yr], yr)
       THEN Abort("ValueError")
       ELSE Stage(load_survey_data(raw[yr], yr), "slice")

Slice ==
    /\ pc = "slice"
    /\ IF slice_raises(df[yr], yr)
       THEN Abort("KeyError")
       ELSE Stage(slice_columns(df[yr], yr), "modes")

Modes ==
    /\ pc = "modes"
    /\ Stage(process_travel_modes(df[yr]), "location")

\* variant: the 2024 lookup used for both years
LocationFrom2024Lookup ==
    /\ pc = "location"
    /\ Stage(add_location_data(df[yr], lookup_file[2024]), "affiliation")

Location ==
    /\ pc = "location"
    /\ IF add_location_raises(lookup_file[yr])
       THEN Abort("FileNotFoundError")
       ELSE Stage(add_location_data(df[yr], lookup_file[yr]), "affiliation")

Affiliation ==
    /\ pc = "affiliation"
    /\ prev' = df[yr]
    /\ df' = [df EXCEPT ![yr] = consolidate_affiliations(df[yr])]
    /\ IF yr = 2024 THEN yr' = 2021 /\ pc' = "load" ELSE yr' = yr /\ pc' = "common"
    /\ UNCHANGED <<raw, lookup_file, common_cols, df_combined, df_facts,
                   df_opinions, written, facts_file, error, map_state, map_df, tools>>

Common ==
    /\ pc = "common"
    /\ IF get_common_columns_raises(df[2024], df[2021], start_col)
       THEN Abort("ValueError")
       ELSE /\ common_cols' = get_common_columns(df[2024], df[2021], start_col)
            /\ pc' = "combine"
            /\ UNCHANGED <<raw, lookup_file, yr, df, prev, df_combined, df_facts,
                           df_opinions, written, facts_file, error, map_state, map_df, tools>>

Combine ==
    /\ pc = "combine"
    /\ IF restrict_raises(df[2024], common_cols) \/ restrict_raises(df[2021], common_cols)
       THEN Abort("KeyError")
       ELSE /\ df_combined' = rename_standardized(concat(df[2024], df[2021], common_cols))
            /\ pc' = "write_unified"
            /\ UNCHANGED <<raw, lookup_file, yr, df, prev, common_cols, df_facts,
                           df_opinions, written, facts_file, error, map_state, map_df, tools>>

\* to_csv succeeds or raises OSError (disk, permissions): the environment decides
WriteUnified ==
    /\ pc = "write_unified"
    /\ \E ok \in BOOLEAN :
          IF ok
          THEN /\ written' = written \cup {"cleaned_surveys.csv"}
               /\ pc' = "split"
               /\ UNCHANGED <<raw, lookup_file, yr, df, prev, common_cols, df_combined,
                              df_facts, df_opinions, facts_file, error, map_state, map_df, tools>>
          ELSE Abort("OSError")

Split ==
    /\ pc = "split"
    /\ df_facts' = Project(df_combined, PresentColumns(fact_columns, df_combined))
    /\ df_opinions' = Project(df_combined, PresentColumns(opinion_columns, df_combined))
    /\ pc' = "write_facts"
    /\ UNCHANGED <<raw, lookup_file, yr, df, prev, common_cols, df_combined,
                   written, facts_file, error, map_state, map_df, tools>>

WriteFacts ==
    /\ pc = "write_facts"
    /\ \E ok \in BOOLEAN :
          IF ok
          THEN /\ written' = written \cup {"cleaned_surveys_facts.csv"}
               /\ facts_file' = to_csv(df_facts)
               /\ pc' = "write_opinions"
               /\ UNCHANGED <<raw, lookup_file, yr, df, prev, common_cols, df_combined,
                              df_facts, df_opinions, error, map_state, map_df, tools>>
          ELSE Abort("OSError")

WriteOpinions ==
    /\ pc = "write_opinions"
    /\ \E ok \in BOOLEAN :
          IF ok
          THEN /\ written' = written \cup {"cleaned_surveys_opinions.csv"}
               /\ pc' = "done"
               /\ UNCHANGED <<raw, lookup_file, yr, df, prev, common_cols, df_combined,
                              df_facts, df_opinions, facts_file, error, map_state, map_df, tools>>
          ELSE Abort("OSError")

\* map_dash.py, run on the facts file of a completed run (it reads
\* data/cleaned_surveys_facts.csv, taken to be a copy of the file written)
MapDashboard ==
    /\ pc = "done"
    /\ map_state = "idle"
    /\ IF map_load_raises(facts_file)
       THEN map_state' = "failed" /\ map_df' = map_df
       ELSE map_state' = "loaded" /\ map_df' = load_and_prepare_data(facts_file)
    /\ UNCHANGED <<raw, lookup_file, pc, yr, df, prev, common_cols, df_combined,
                   df_facts, df_opinions, written, facts_file, error, tools>>

Next ==
    \/ Load
    \/ Slice
    \/ Modes
    \/ Location
    \/ Affiliation
    \/ Common
    \/ Combine
    \/ WriteUnified
    \/ Split
    \/ WriteFacts
    \/ WriteOpinions
    \/ MapDashboard

\* analysis_dash.py, one script run on the facts file of a completed run.
\* The widgets' values are inputs; the bar chart drawn last (per_capita is
\* read only there) keeps no state and raises nothing
AnalysisDashboard ==
    /\ pc = "done"
    /\ analysis_state = "idle"
    /\ IF load_and_calculate_error(facts_file) # ""
       THEN /\ analysis_state' = "failed"
            /\ analysis_error' = load_and_calculate_error(facts_file)
            /\ analysis_out' = analysis_out
       ELSE LET d == load_and_calculate_data(facts_file) IN
            \E selected_years \in SUBSET YearsIn(d) :
            \E metric \in {"Miles", "Emissions"} :
            \E time_period \in {"week", "academic_year"} :
            \E selected_affiliations \in
                  {AffiliationsIn(d), AffiliationsIn(d) \cap {Str("Student")}} :
               IF selected_years = {}
               THEN /\ analysis_state' = "stopped"
                    /\ UNCHANGED <<analysis_error, analysis_out>>
               ELSE IF summary_error(d, selected_years, selected_affiliations) # ""
               THEN /\ analysis_state' = "failed"
                    /\ analysis_error' =
                          summary_error(d, selected_years, selected_affiliations)
                    /\ analysis_out' = analysis_out
               ELSE /\ analysis_state' = "shown"
                    /\ analysis_error' = analysis_error
                    /\ analysis_out' =
                          LET ys == SelectSeq(<<2024, 2021>>, LAMBDA y : y \in selected_years)
                          IN  [k \in 1..Len(ys) |->
                                  summary(d, ys[k], selected_years, metric, time_period,
                                          selected_affiliations)]
    /\ UNCHANGED <<raw, lookup_file, pc, yr, df, prev, common_cols, df_combined,
                   df_facts, df_opinions, written, facts_file, error, map_state, map_df,
                   trend_state, trend_error, trend_out>>

\* longitudinal_miles_diff.py, run on the facts file of a completed run
TrendScript ==
    /\ pc = "done"
    /\ trend_state = "idle"
    /\ IF trend_error_of(facts_file) # ""
       THEN /\ trend_state' = "failed"
            /\ trend_error' = trend_error_of(facts_file)
            /\ trend_out' = trend_out
       ELSE /\ trend_state' = "done"
            /\ trend_error' = trend_error
            /\ trend_out' = trend_results(facts_file)
    /\ UNCHANGED <<raw, lookup_file, pc, yr, df, prev, common_cols, df_combined,
                   df_facts, df_opinions, written, facts_file, error, map_state, map_df,
                   analysis_state, analysis_error, analysis_out>>

\* the pipeline followed by any of the three readers of the facts file
NextTools ==
    \/ Next
    \/ AnalysisDashboard
    \/ TrendScript

Spec == Init /\ [][Next]_vars
SpecModes == InitModes /\ [][Next]_vars
SpecAffiliations == InitAffiliations /\ [][Next]_vars
SpecColumns == InitColumns /\ [][Next]_vars
SpecTools == InitTools /\ [][NextTools]_vars
(***************************************************************************)
(* Properties                                                               *)
(***************************************************************************)
\* the table a finished stage received and the one it produced
AfterModes == pc = "location"
AfterLocation == pc = "affiliation"
AfterLoad == pc = "slice"
DayEntries(t, r) == [k \in 1..Len(FindDayCols(t.cols)) |-> Cell(t, r, FindDayCols(t.cols)[k])]
DayCount(t, r, mode) == Cell(t, r, DaysCol(mode))

\* the rule order of the claim, on a lower-cased text
FirstRule(m) ==
    IF Contains(m, "udash") \/ Contains(m, "mountain line") \/ Contains(m, "bus") THEN "Bus"
    ELSE IF Contains(m, "walk") THEN "Walk"
    ELSE IF Contains(m, "bike") THEN "Bike"
    ELSE IF Contains(m, "drive alone") THEN "Drive Alone"
    ELSE IF Contains(m, "carpool") \/ Contains(m, "vanpool") THEN "Carpool"
    ELSE "Other"

\* C1 as stated: every string day entry is classified by the first matching
\* rule of the order Bus, Walk, Bike, Drive Alone, Carpool, else Other.
C1_EveryStringByFirstRule ==
    AfterModes =>
        \A r \in 1..NRows(prev) : \A k \in 1..Len(DayEntries(prev, r)) :
            LET e == DayEntries(prev, r)[k] IN
            IsStr(e) => consolidate_mode(e) = FirstRule(Lower(e.text))

\* C1 amended: every string day entry other than the text 'did not travel'
\* (lower-cased), which gets no mode, is classified by the first matching
\* rule of that order; an entry holding both 'bus' and 'walk' is Bus and is
\* counted as a Bus day, never as a Walk day.
C1_FirstRuleExceptNoTravel ==
    AfterModes =>
        \A r \in 1..NRows(prev) : \A k \in 1..Len(DayEntries(prev, r)) :
            LET e == DayEntries(prev, r)[k] IN
            IsStr(e) =>
                /\ consolidate_mode(e) =
                      IF Lower(e.text) = "did not travel" THEN NoMode
                      ELSE FirstRule(Lower(e.text))
                /\ Contains(Lower(e.text), "bus") /\ Contains(Lower(e.text), "walk")
                      => /\ DayCount(df[yr], r, "Bus").num >= 1
                         /\ Len(DayEntries(prev, r)) = 1 => DayCount(df[yr], r, "Walk") = Num(0)

C1_Witness ==
    /\ AfterModes
    /\ \E r \in 1..NRows(prev) :
          /\ Len(DayEntries(prev, r)) = 1
          /\ IsStr(DayEntries(prev, r)[1])
          /\ Contains(Lower(DayEntries(prev, r)[1].text), "bus")
          /\ Contains(Lower(DayEntries(prev, r)[1].text), "walk")
          /\ DayCount(df[yr], r, "Bus") = Num(1)

SixCounts(t, r) ==
    DayCount(t, r, "Walk").num + DayCount(t, r, "Bike").num
    + DayCount(t, r, "Drive Alone").num + DayCount(t, r, "Carpool").num
    + DayCount(t, r, "Bus").num + DayCount(t, r, "Other").num
\* the entries that are strings other than 'did not travel'
Remaining(entries) ==
    {k \in 1..Len(entries) : IsStr(entries[k]) /\ Lower(entries[k].text) # "did not travel"}

C3_DayCountsAlwaysPresent ==
    AfterModes =>
        \A mode \in ModeSet :
            /\ HasCol(df[yr], DaysCol(mode))
            /\ \A r \in 1..NRows(df[yr]) : DayCount(df[yr], r, mode).kind = "num"

\* row r of the export holds the seven day answers of the scenario
IsScenarioRow(file, r) ==
    /\ file.cols = WeekSchema
    /\ SubSeq(file.rows[r], 3, 9) = ScenarioWeek

\* C4: a respondent whose seven day answers in the export are Bike, Bike,
\* Walk, Did not travel, (empty), Bus, Bike gets 3 Bike days, 1 Walk day,
\* 1 Bus day and 0 days of the other three modes; the empty answer adds to
\* no count.
C4_ScenarioCounts ==
    AfterModes =>
        \A r \in 1..Len(raw[yr].rows) :
            IsScenarioRow(raw[yr], r) =>
                /\ DayCount(df[yr], r, "Bike") = Num(3)
                /\ DayCount(df[yr], r, "Walk") = Num(1)
                /\ DayCount(df[yr], r, "Bus") = Num(1)
                /\ DayCount(df[yr], r, "Drive Alone") = Num(0)
                /\ DayCount(df[yr], r, "Carpool") = Num(0)
                /\ DayCount(df[yr], r, "Other") = Num(0)

C4_Witness ==
    /\ AfterModes
    /\ yr = 2021
    /\ \E r \in 1..Len(raw[yr].rows) :
          /\ IsScenarioRow(raw[yr], r)
          /\ IsNa(DayEntries(prev, r)[5])
          /\ DayCount(df[yr], r, "Bike") = Num(3)
          /\ SixCounts(df[yr], r) = 5
Combined == pc \in {"write_unified", "split", "write_facts", "write_opinions", "done"}
AfterSplit == pc \in {"write_facts", "write_opinions", "done"}
Standard(c) == MapName(standardized_names, c)

\* C5: the unified table is the rows of the cleaned 2024 table followed by
\* the rows of the cleaned 2021 table, none dropped or merged, so it has as
\* many rows as the two years together; the fact and the opinion projection
\* have the same rows in the same order.
C5_RowsPreserved ==
    /\ Combined =>
          LET n24 == NRows(df[2024])
              n21 == NRows(df[2021])
          IN  /\ Len(df_combined.rows) = n24 + n21
              /\ n24 = Len(raw[2024].rows)
              /\ n21 = Len(raw[2021].rows)
              /\ \A c \in common_cols :
                    /\ \A i \in 1..n24 :
                          df_combined.rows[i][Standard(c)] = Cell(df[2024], i, c)
                    /\ \A i \in 1..n21 :
                          df_combined.rows[n24 + i][Standard(c)] = Cell(df[2021], i, c)
    /\ AfterSplit =>
          /\ NRows(df_facts) = Len(df_combined.rows)
          /\ NRows(df_opinions) = Len(df_combined.rows)
          /\ \A i \in 1..Len(df_combined.rows) :
                /\ \A k \in 1..Len(df_facts.cols) :
                      df_facts.rows[i][k] = df_combined.rows[i][df_facts.cols[k]]
                /\ \A k \in 1..Len(df_opinions.cols) :
                      df_opinions.rows[i][k] = df_combined.rows[i][df_opinions.cols[k]]

C5_Witness ==
    /\ pc = "done"
    /\ \E i \in 1..NRows(df[2024]) :
          \E j \in (NRows(df[2024]) + 1)..Len(df_combined.rows) :
             /\ df_combined.rows[i][ResponseIdCol] = df_combined.rows[j][ResponseIdCol]
             /\ Cell(df_facts, i, YearCol) = Num(2024)
             /\ Cell(df_facts, j, YearCol) = Num(2021)

OutputFiles ==
    {"cleaned_surveys.csv", "cleaned_surveys_facts.csv", "cleaned_surveys_opinions.csv"}

\* C6 as stated: a run ends with all three output files written or with
\* none of them written, whichever stage fails.
C6_AllOrNothing ==
    pc \in {"done", "aborted"} => written = {} \/ written = OutputFiles

\* id has an entry with both coordinates in the year's lookup
InLookup(file, id) ==
    /\ file.exists
    /\ \E j \in 1..Len(file.rows) :
          /\ file.rows[j].ResponseId = id
          /\ NotNa(file.rows[j].matched_lat)
          /\ NotNa(file.rows[j].matched_lon)

\* C7: after add_location_data a respondent with coordinates in the year's
\* lookup has latitude, longitude and calculated_distance_mi all set, any
\* other respondent has all three null; the distance is set exactly when
\* the coordinates are, and the rows the map dashboard keeps are exactly
\* the unified rows with coordinates.
C7_LocationAllOrNone ==
    /\ AfterLocation =>
          \A r \in 1..NRows(df[yr]) :
             LET id == Cell(df[yr], r, ResponseIdCol)
                 lat == Cell(df[yr], r, "latitude")
                 lon == Cell(df[yr], r, "longitude")
                 dist == Cell(df[yr], r, "calculated_distance_mi")
             IN  /\ InLookup(lookup_file[yr], id) =>
                       /\ NotNa(lat) /\ NotNa(lon) /\ NotNa(dist)
                       /\ \E j \in 1..Len(lookup_file[yr].rows) :
                             /\ lookup_file[yr].rows[j].ResponseId = id
                             /\ lookup_file[yr].rows[j].matched_lat = lat
                             /\ lookup_file[yr].rows[j].matched_lon = lon
                 /\ ~InLookup(lookup_file[yr], id) => IsNa(lat) /\ IsNa(lon) /\ IsNa(dist)
                 /\ NotNa(dist) <=> (NotNa(lat) /\ NotNa(lon))
    /\ map_state = "loaded" =>
          /\ \A r \in 1..NRows(map_df) :
                NotNa(Cell(map_df, r, "latitude")) /\ NotNa(Cell(map_df, r, "longitude"))
          /\ NRows(map_df) =
                Cardinality({i \in 1..Len(df_combined.rows) :
                                /\ NotNa(df_combined.rows[i]["latitude"])
                                /\ NotNa(df_combined.rows[i]["longitude"])})

C7_Witness ==
    /\ map_state = "loaded"
    /\ NRows(map_df) > 0
    /\ NRows(map_df) < Len(df_combined.rows)
    /\ \E i \in 1..Len(df_combined.rows) :
          /\ IsNa(df_combined.rows[i]["latitude"])
          /\ IsNa(df_combined.rows[i]["calculated_distance_mi"])

LocationCols == {"latitude", "longitude", "calculated_distance_mi"}

\* C8: a missing lookup file raises nothing; the year's rows get null
\* latitude, longitude and calculated_distance_mi, every other column is
\* unchanged, and the run goes on.
C8_MissingLookupNotFatal ==
    /\ error # "FileNotFoundError"
    /\ AfterLocation /\ ~lookup_file[yr].exists =>
          /\ NRows(df[yr]) = NRows(prev)
          /\ Range(df[yr].cols) = Range(prev.cols) \cup LocationCols
          /\ \A r \in 1..NRows(df[yr]) :
                /\ \A c \in LocationCols : IsNa(Cell(df[yr], r, c))
                /\ \A c \in Range(prev.cols) \ LocationCols :
                      Cell(df[yr], r, c) = Cell(prev, r, c)

C8_Witness ==
    /\ AfterLocation
    /\ ~lookup_file[yr].exists
    /\ NRows(df[yr]) > 0
    /\ IsNa(Cell(df[yr], 1, "latitude"))

\* C9: load_survey_data fails, returning no table, when the export has no
\* 'Response ID' column, and the run then ends with no output written;
\* otherwise the column is renamed to 'ResponseId' and every row carries
\* the year in 'survey_year'.
C9_LoadRequiresResponseId ==
    /\ \A y \in Years :
          ~HasCol(raw[y], "Response ID") =>
             /\ df[y] = EmptyTable
             /\ written = {}
             /\ ~Combined /\ pc # "common" /\ pc # "combine"
             /\ yr = y /\ pc # "load" => pc = "aborted" /\ error = "ValueError"
    /\ AfterLoad =>
          /\ HasCol(df[yr], ResponseIdCol)
          /\ ~HasCol(df[yr], "Response ID")
          /\ NRows(df[yr]) = Len(raw[yr].rows)
          /\ \A r \in 1..NRows(df[yr]) :
                /\ Cell(df[yr], r, YearCol) = Num(yr)
                /\ CellText(Cell(df[yr], r, ResponseIdCol)) = Cell(raw[yr], r, "Response ID")

C9_Witness ==
    /\ pc = "aborted"
    /\ error = "ValueError"
    /\ yr = 2021
    /\ ~HasCol(raw[2021], "Response ID")
    /\ NRows(df[2024]) > 0
    /\ written = {}

RequiredFactColumns ==
    {"ResponseId", "survey_year", "primary_affiliation", "days_walk", "days_bike",
     "days_drive_alone", "days_carpool", "days_bus", "days_other", "commute_miles",
     "latitude", "longitude"}

\* C10 as stated: whenever a run completes, the fact-only output has the id,
\* year, affiliation, six day-count, commute_miles and location columns.
C10_FactsHaveRequiredColumns ==
    pc = "done" => RequiredFactColumns \subseteq Range(df_facts.cols)

\* the Affiliation stage has just run on the table of AffiliationYear
AfterAffiliation == (pc = "load" /\ yr = 2021) \/ pc = "common"
AffiliationYear == IF pc = "common" THEN 2021 ELSE 2024
AffiliationIn(r) == Cell(prev, r, affiliation_col)
AffiliationOut(r) == Cell(df[AffiliationYear], r, affiliation_col)

\* the label of a text by the keyword order Student, Faculty, Staff
KeywordLabel(text) ==
    IF Contains(text, "Student") THEN "Student"
    ELSE IF Contains(text, "Faculty") THEN "Faculty"
    ELSE IF Contains(text, "Staff") THEN "Staff"
    ELSE text

\* C11 as stated: a text gets the label of the first keyword it contains in
\* the order Student, Faculty, Staff (case-sensitive); every other value
\* passes through unchanged, and null yields null.
C11_OthersPassThrough ==
    AfterAffiliation /\ HasCol(prev, affiliation_col) =>
        \A r \in 1..NRows(prev) :
            AffiliationOut(r) =
                IF IsNa(AffiliationIn(r)) THEN NaN
                ELSE IF IsStr(AffiliationIn(r)) THEN Str(KeywordLabel(AffiliationIn(r).text))
                ELSE AffiliationIn(r)

\* C11 amended: a text gets the label of the first keyword it contains in
\* the order Student, Faculty, Staff (case-sensitive), every other text
\* passes through unchanged, and null and every value that is not a text
\* (a number) yield null.
C11_TextsPassThrough ==
    AfterAffiliation /\ HasCol(prev, affiliation_col) =>
        \A r \in 1..NRows(prev) :
            AffiliationOut(r) =
                IF IsNa(AffiliationIn(r)) THEN NaN
                ELSE IF IsStr(AffiliationIn(r)) THEN Str(KeywordLabel(AffiliationIn(r).text))
                ELSE NaN

C11_Witness ==
    /\ pc = "common"
    /\ HasCol(prev, affiliation_col)
    /\ NRows(prev) = 1
    /\ AffiliationIn(1) = Str("StaffStudent")
    /\ AffiliationOut(1) = Str("Student")

\* C18: running the normalizer on the affiliations it produced changes
\* nothing: for every value received (text, null or number) the value
\* produced is mapped to itself by consolidate_affiliation.
C18_AffiliationIdempotent ==
    AfterAffiliation /\ HasCol(prev, affiliation_col) =>
        /\ consolidate_affiliations(df[AffiliationYear]) = df[AffiliationYear]
        /\ \A r \in 1..NRows(prev) :
              /\ AffiliationOut(r) = consolidate_affiliation(AffiliationIn(r))
              /\ consolidate_affiliation(AffiliationOut(r)) = AffiliationOut(r)

C18_Witness ==
    /\ pc = "common"
    /\ NRows(prev) = 2
    /\ AffiliationIn(1) = Str("Undergraduate Student")
    /\ AffiliationOut(1) = Str("Student")
    /\ AffiliationIn(2) = Str("Contractor")
    /\ consolidate_affiliations(df[2021]) = df[2021]

\* C12 as stated: no reader of the facts file is ended by a day count or a
\* commute distance that is not a number (such a value counts as zero or
\* null), and the day counts the map dashboard uses are numbers.
C12_UnparseableNeverAborts ==
    /\ ~(analysis_state = "failed" /\ analysis_error = "TypeError")
    /\ ~(trend_state = "failed" /\ trend_error = "TypeError")
    /\ map_state = "loaded" =>
          \A r \in 1..NRows(map_df) : \A k \in 1..Len(mode_columns) :
             Cell(map_df, r, mode_columns[k]).kind = "num"

\* the rows of year y in the unified table, and its driving respondents
UnifiedRows(y) == {i \in 1..Len(df_combined.rows) : df_combined.rows[i][YearCol] = Num(y)}
UnifiedDrivers(y) ==
    {i \in UnifiedRows(y) :
        df_combined.rows[i]["days_drive_alone"].num
        + df_combined.rows[i]["days_carpool"].num > 0}
NoDriverYear ==
    \E y \in Years : UnifiedRows(y) # {} /\ UnifiedDrivers(y) = {}

\* C13 as stated: the trend script fails, with no result, when a survey
\* year has no driving respondent, and the analysis dashboard fails when the
\* filtered group of a selected year is empty.
C13_DivisionByZeroFails ==
    /\ trend_state = "done" => ~NoDriverYear
    /\ trend_state = "failed" => trend_out = <<>>
    /\ analysis_state = "shown" =>
          \A k \in 1..Len(analysis_out) : analysis_out[k].commuters > 0

\* C13 amended: the trend script fails, with no result, when a survey year
\* with respondents has no driving respondent, and its ZeroDivisionError
\* has no other cause; the analysis dashboard does not fail on an empty
\* group of a selected year: it shows 0 commuters and the average nan,
\* and the average is nan for no other group.
C13_TrendFailsDashboardShowsNan ==
    /\ trend_state = "done" => ~NoDriverYear
    /\ trend_state = "failed" => trend_out = <<>>
    /\ trend_error = "ZeroDivisionError" => NoDriverYear
    /\ analysis_error # "ZeroDivisionError"
    /\ analysis_state = "shown" =>
          \A k \in 1..Len(analysis_out) :
             analysis_out[k].commuters = 0 <=> IsNa(analysis_out[k].average)

C13_Witness ==
    /\ trend_state = "failed"
    /\ trend_error = "ZeroDivisionError"
    /\ UnifiedRows(2021) # {}
    /\ UnifiedDrivers(2021) = {}
    /\ analysis_state = "shown"
    /\ \E k \in 1..Len(analysis_out) :
          /\ analysis_out[k].commuters = 0
          /\ IsNa(analysis_out[k].average)
    /\ \E k \in 1..Len(analysis_out) : analysis_out[k].commuters > 0

\* the columns whose name equals the marker when letter case is ignored
MarkerMatches(t) == {k \in 1..Len(t.cols) : Lower(t.cols[k]) = Lower(start_col)}
\* the names of t from its first such column onward
FromMarker(t) ==
    LET first == CHOOSE k \in MarkerMatches(t) : \A j \in MarkerMatches(t) : k <= j
    IN  SubSeq(t.cols, first, Len(t.cols))
AfterSlice == pc = "modes"

\* C14 as stated: the slice of clean_survey_data and get_common_columns
\* both take the first column whose name equals the marker when letter case
\* is ignored: a table with such a column is sliced from it, and the run
\* fails on the marker only when no column matches.
C14_MarkerCaseInsensitive ==
    /\ pc = "aborted" /\ error = "KeyError" =>
          MarkerMatches(Apply2021Mapping(df[yr], yr)) = {}
    /\ AfterSlice =>
          df[yr].cols = Dedup(<<ResponseIdCol>> \o FromMarker(Apply2021Mapping(prev, yr))
                               \o <<YearCol>>)
    /\ pc = "combine" =>
          common_cols \subseteq Range(FromMarker(df[2024])) \cup {ResponseIdCol, YearCol}

StandardKeys == {standardized_names[i][1] : i \in 1..Len(standardized_names)}
StandardValues == {standardized_names[i][2] : i \in 1..Len(standardized_names)}
Names(t) == Range(t.cols)

\* C15 as stated: no column whose name is not a key of standardized_names
\* appears in the unified table, also when both years' cleaned tables have it.
C15_UnmappedExcluded ==
    Combined =>
        \A c \in Names(df[2024]) \cup Names(df[2021]) :
            c \notin StandardKeys => c \notin df_combined.cols

\* C15 amended: a column whose name is not a key of standardized_names
\* keeps its name, and it is in the unified table exactly when both years'
\* cleaned tables have it; every other column of the unified table carries
\* a standardized name.
C15_UnmappedKeptWhenCommon ==
    Combined =>
        /\ \A c \in (Names(df[2024]) \cup Names(df[2021])) \ StandardKeys :
              c \in df_combined.cols <=> c \in Names(df[2024]) \cap Names(df[2021])
        /\ \A c \in df_combined.cols :
              \/ c \in StandardValues
              \/ c \in (Names(df[2024]) \cap Names(df[2021])) \ StandardKeys

C15_Witness ==
    /\ Combined
    /\ comments_col \in df_combined.cols
    /\ fair_col(2024) \in Names(df[2024])
    /\ fair_col(2024) \notin df_combined.cols
    /\ fair_col(2021) \in Names(df[2021])
    /\ "commute_miles" \in df_combined.cols

\* C16: get_common_columns returns exactly the names that are in the 2024
\* table from the start column onward (or ResponseId) and in the 2021
\* table, together with ResponseId and survey_year; each is a column of
\* both tables, so restricting either table to them raises nothing.
C16_CommonColumnsExact ==
    /\ pc = "combine" =>
          /\ common_cols =
                ((Range(FromMarker(df[2024])) \cup {ResponseIdCol}) \cap Names(df[2021]))
                \cup {ResponseIdCol, YearCol}
          /\ common_cols \subseteq Names(df[2024]) \cap Names(df[2021])
          /\ ~restrict_raises(df[2024], common_cols)
          /\ ~restrict_raises(df[2021], common_cols)
    /\ Combined => df_combined.cols = {Standard(c) : c \in common_cols}
    /\ pc = "aborted" /\ error = "KeyError" => common_cols = {}

C16_Witness ==
    /\ pc = "combine"
    /\ common_cols # Names(df[2024])
    /\ common_cols # Names(df[2021])
    /\ commute_2024 \in common_cols
    /\ comments_col \in Names(df[2021]) \ common_cols
    /\ raw[2024].cols[3] = "Response ID"

\* the last entry of id with both coordinates in a lookup file
LastEntry(file, id) ==
    LET valid == {j \in 1..Len(file.rows) : /\ file.rows[j].ResponseId = id
                                            /\ NotNa(file.rows[j].matched_lat)
                                            /\ NotNa(file.rows[j].matched_lon)}
    IN  file.rows[CHOOSE j \in valid : \A k \in valid : k <= j]

\* C17: in the unified table the latitude, longitude and calculated
\* distance of a row of year Y are those of its id in year Y's lookup, and
\* null when that lookup has no coordinates for the id, whatever the other
\* year's lookup holds for the same id.
C17_GeocodingPerYear ==
    Combined =>
        \A i \in 1..Len(df_combined.rows) :
            LET row == df_combined.rows[i]
                file == lookup_file[row[YearCol].num]
            IN  /\ row[YearCol] = Num(IF i <= NRows(df[2024]) THEN 2024 ELSE 2021)
                /\ IF InLookup(file, row[ResponseIdCol])
                   THEN LET e == LastEntry(file, row[ResponseIdCol])
                        IN  /\ row["latitude"] = e.matched_lat
                            /\ row["longitude"] = e.matched_lon
                            /\ row["calculated_distance_mi"] =
                                  calculate_haversine_distance(e.matched_lat, e.matched_lon)
                   ELSE \A c \in LocationCols : IsNa(row[c])

C17_Witness ==
    /\ Combined
    /\ \E i, j \in 1..Len(df_combined.rows) :
          /\ df_combined.rows[i][YearCol] = Num(2024)
          /\ df_combined.rows[j][YearCol] = Num(2021)
          /\ df_combined.rows[i][ResponseIdCol] = df_combined.rows[j][ResponseIdCol]
          /\ InLookup(lookup_file[2024], df_combined.rows[i][ResponseIdCol])
          /\ NotNa(df_combined.rows[i]["latitude"])
          /\ IsNa(df_combined.rows[j]["latitude"])
          /\ lookup_file[2021].exists
====
